---- MODULE Spec2Model ----
(***************************************************************************)
(* Model of elastalert/create_index.py: main() resolves the connection     *)
(* settings from the command line, the environment, a YAML file and the    *)
(* operator's answers, then provisions the ElastAlert indices on an        *)
(* Elasticsearch cluster and optionally reindexes an old index.            *)
(*                                                                         *)
(* Python's None is the empty tuple and a value v is <<v>>, so that an     *)
(* optional string, integer or boolean can be compared with None.          *)
(***************************************************************************)
EXTENDS Integers, Sequences, FiniteSets, TLC

VARIABLES
    exists,      \* cluster: names of the indices that exist
    mapped,      \* cluster: names of the indices a mapping was applied to
    exists0,     \* the cluster's indices before the first run
    runs,        \* number of runs of main() started so far
    targets,     \* the target indices of the runs started so far
    prev,        \* summary of the previous run, None before the second run
    pc,          \* position of the current run inside main()
    i,           \* which of the five create / put_mapping calls is next
    args,        \* the --index / --old-index values and the prompt answers
    index,       \* main()'s local `index`
    old_index,   \* main()'s local `old_index`
    start,       \* the cluster's indices when the current run started
    calls,       \* cluster calls issued by the current run, in order
    output,      \* lines printed by the current run, in order
    cin,         \* configuration inputs: CLI, environment, file, answers
    cfg          \* resolved configuration, None before resolution

pvars == <<exists, mapped, exists0, runs, targets, prev, pc, i, args, index,
           old_index, start, calls, output>>
vars == <<exists, mapped, exists0, runs, targets, prev, pc, i, args, index,
          old_index, start, calls, output, cin, cfg>>

None == <<>>
Some(v) == <<v>>

\* ---- bounds ----
MaxRuns == 2

\* ---- the hardcoded index catalogue ----
\* the order of the five es.indices.create calls
CreateOrder ==
    <<"elastalert", "elastalert_status", "elastalert_silence",
      "elastalert_error", "elastalert_past">>

\* the index of each of the five es.indices.put_mapping calls, in order
MappingOrder ==
    <<"elastalert", "elastalert_status", "elastalert_silence",
      "elastalert_error", "elastalert_past">>

\* the doc_type of each of the five put_mapping calls, in order
MappingDocType ==
    <<"elastalert", "elastalert_status", "silence",
      "elastalert_error", "past_elastalert">>

FixedIndices == {CreateOrder[k] : k \in 1..Len(CreateOrder)}

DefaultIndex == "elastalert_status"

\* ---- inputs of the provisioning part ----
\* --index: not given, or a name; the answer to 'New index name?'
ArgIndexValues == {None, Some(""), Some("foo"), Some("elastalert_status")}
AnsIndexValues == {"", "foo"}
\* --old-index: not given, or a name; the answer to 'Name of existing index to copy?'
ArgOldIndexValues == {None, Some(""), Some("bar")}
AnsOldIndexValues == {"", "bar"}

\* clusters the program may be started against
InitClusters == {{}, {"foo"}, FixedIndices}

\* ---- call log ----
Call(op, idx, src, res) == [op |-> op, index |-> idx, src |-> src, res |-> res]

Ended == {"skipped", "done", "aborted"}

\* ---- lines 138-143: index and old_index ----
\* index = args.index if args.index is not None else raw_input(...);
\* if not index: index = 'elastalert_status'
ResolveIndex(arg, ans) ==
    LET raw == IF arg # None THEN arg[1] ELSE ans
    IN  IF raw = "" THEN DefaultIndex ELSE raw

\* old_index = args.old_index if args.old_index is not None else raw_input(...)
ResolveOldIndex(arg, ans) == IF arg # None THEN arg[1] ELSE ans

\* summary of the run that has just ended
RunSummary ==
    [index |-> index, old_index |-> old_index, pc |-> pc, start |-> start,
     exists |-> exists, mapped |-> mapped, calls |-> calls]

\* a run of main() begins: the process is started (again) by the operator
StartRun(ai, ni, ao, no) ==
    /\ pc \in {"idle"} \cup Ended
    /\ runs < MaxRuns
    /\ runs' = runs + 1
    /\ prev' = IF pc = "idle" THEN None ELSE Some(RunSummary)
    /\ args' = [index |-> ai, old_index |-> ao,
                ans_index |-> IF ai = None THEN Some(ni) ELSE None,
                ans_old_index |-> IF ao = None THEN Some(no) ELSE None]
    /\ index' = ResolveIndex(ai, ni)
    /\ old_index' = ResolveOldIndex(ao, no)
    /\ targets' = targets \cup {ResolveIndex(ai, ni)}
    /\ start' = exists
    /\ calls' = <<>>
    /\ output' = <<>>
    /\ i' = 1
    /\ pc' = "exists"
    /\ UNCHANGED <<exists, mapped, exists0, cin, cfg>>

\* ExistsCheck with the migration still performed when the target exists and
\* an old index was given
ExistsCheck_MigratesAnyway ==
    /\ pc = "exists"
    /\ \/ /\ index \in exists
          /\ calls' = Append(calls, Call("exists", index, "", "true"))
          /\ output' = Append(output, <<"Index already exists. Skipping index creation.", index>>)
          /\ pc' = IF old_index # "" THEN "migrate" ELSE "skipped"
       \/ /\ index \notin exists
          /\ calls' = Append(calls, Call("exists", index, "", "false"))
          /\ output' = output
          /\ pc' = "create"
       \/ /\ calls' = Append(calls, Call("exists", index, "", "raise"))
          /\ output' = output
          /\ pc' = "aborted"
    /\ UNCHANGED <<exists, mapped, exists0, runs, targets, prev, i, args,
                   index, old_index, start, cin, cfg>>

\* lines 145-148: es_index.exists(index); True prints the notice and returns
ExistsCheck ==
    /\ pc = "exists"
    /\ \/ /\ index \in exists
          /\ calls' = Append(calls, Call("exists", index, "", "true"))
          /\ output' = Append(output, <<"Index already exists. Skipping index creation.", index>>)
          /\ pc' = "skipped"
       \/ /\ index \notin exists
          /\ calls' = Append(calls, Call("exists", index, "", "false"))
          /\ output' = output
          /\ pc' = "create"
       \/ /\ calls' = Append(calls, Call("exists", index, "", "raise"))
          /\ output' = output
          /\ pc' = "aborted"
    /\ UNCHANGED <<exists, mapped, exists0, runs, targets, prev, i, args,
                   index, old_index, start, cin, cfg>>

\* lines 150-154: the i-th es.indices.create call; the client raises when the
\* cluster rejects the request (the index exists already) or cannot be
\* reached, and nothing in main() catches the exception
Create ==
    /\ pc = "create"
    /\ \/ /\ CreateOrder[i] \notin exists
          /\ exists' = exists \cup {CreateOrder[i]}
          /\ calls' = Append(calls, Call("create", CreateOrder[i], "", "ok"))
          /\ IF i < Len(CreateOrder)
               THEN /\ i' = i + 1
                    /\ pc' = "create"
               ELSE /\ i' = 1
                    /\ pc' = "sleep"
       \/ /\ exists' = exists
          /\ calls' = Append(calls, Call("create", CreateOrder[i], "", "raise"))
          /\ i' = i
          /\ pc' = "aborted"
    /\ UNCHANGED <<mapped, exists0, runs, targets, prev, args, index,
                   old_index, start, output, cin, cfg>>

\* Sleep with the delay left out
Sleep_Omitted ==
    /\ pc = "sleep"
    /\ calls' = calls
    /\ pc' = "put_mapping"
    /\ UNCHANGED <<exists, mapped, exists0, runs, targets, prev, i, args,
                   index, old_index, start, output, cin, cfg>>

\* line 156: time.sleep(2)
Sleep ==
    /\ pc = "sleep"
    /\ calls' = Append(calls, Call("sleep", "", "", "ok"))
    /\ pc' = "put_mapping"
    /\ UNCHANGED <<exists, mapped, exists0, runs, targets, prev, i, args,
                   index, old_index, start, output, cin, cfg>>

\* lines 157-161: the i-th es.indices.put_mapping call; it raises when the
\* index is missing or the request fails
PutMapping ==
    /\ pc = "put_mapping"
    /\ \/ /\ MappingOrder[i] \in exists
          /\ mapped' = mapped \cup {MappingOrder[i]}
          /\ calls' = Append(calls, Call("put_mapping", MappingOrder[i], MappingDocType[i], "ok"))
          /\ IF i < Len(MappingOrder)
               THEN /\ i' = i + 1
                    /\ pc' = "put_mapping"
               ELSE /\ i' = 1
                    /\ pc' = "print_created"
       \/ /\ mapped' = mapped
          /\ calls' = Append(calls, Call("put_mapping", MappingOrder[i], MappingDocType[i], "raise"))
          /\ i' = i
          /\ pc' = "aborted"
    /\ UNCHANGED <<exists, exists0, runs, targets, prev, args, index,
                   old_index, start, output, cin, cfg>>

\* line 162: print('New index %s created' % index)
PrintCreated ==
    /\ pc = "print_created"
    /\ output' = Append(output, <<"New index created", index>>)
    /\ pc' = "migrate"
    /\ UNCHANGED <<exists, mapped, exists0, runs, targets, prev, i, args,
                   index, old_index, start, calls, cin, cfg>>

\* Reindex guarded by `old_index is not None` instead of `old_index`
Reindex_NotNone ==
    /\ pc = "migrate"
    /\ output' = Append(output, <<"Copying all data from old index to new index", old_index, index>>)
    /\ \/ /\ \E copied \in BOOLEAN :
                exists' = IF copied THEN exists \cup {index} ELSE exists
          /\ calls' = Append(calls, Call("reindex", index, old_index, "ok"))
          /\ pc' = "finish"
       \/ /\ exists' = exists
          /\ calls' = Append(calls, Call("reindex", index, old_index, "raise"))
          /\ pc' = "aborted"
    /\ UNCHANGED <<mapped, exists0, runs, targets, prev, i, args, index,
                   old_index, start, cin, cfg>>

\* lines 164-167: if old_index: print(...); elasticsearch.helpers.reindex(es,
\* old_index, index).  Writing documents to a missing destination creates it
\* (without the mappings of this script) when the source holds documents.
Reindex ==
    /\ pc = "migrate"
    /\ old_index # ""
    /\ output' = Append(output, <<"Copying all data from old index to new index", old_index, index>>)
    /\ \/ /\ \E copied \in BOOLEAN :
                exists' = IF copied THEN exists \cup {index} ELSE exists
          /\ calls' = Append(calls, Call("reindex", index, old_index, "ok"))
          /\ pc' = "finish"
       \/ /\ exists' = exists
          /\ calls' = Append(calls, Call("reindex", index, old_index, "raise"))
          /\ pc' = "aborted"
    /\ UNCHANGED <<mapped, exists0, runs, targets, prev, i, args, index,
                   old_index, start, cin, cfg>>

\* line 169: print('Done!'), reached after the reindex or when old_index is falsy
Done ==
    /\ \/ pc = "finish"
       \/ pc = "migrate" /\ old_index = ""
    /\ output' = Append(output, <<"Done!">>)
    /\ pc' = "done"
    /\ UNCHANGED <<exists, mapped, exists0, runs, targets, prev, i, args,
                   index, old_index, start, calls, cin, cfg>>

\* ======================================================================
\* Configuration resolution, lines 23-97
\* ======================================================================

\* ---- bounds on the configuration inputs ----
\* command-line options given
MaxArgs == 2
\* keys present in the YAML file
MaxKeys == 1

\* a numeric string is the sequence of its decimal digits; int() of it
RECURSIVE ToInt(_)
ToInt(s) == IF s = <<>> THEN 0 ELSE 10 * ToInt(SubSeq(s, 1, Len(s) - 1)) + s[Len(s)]

\* int('') raises ValueError
IsInt(s) == Len(s) > 0

\* str.lower() on the answers the operator may type
Lower(s) ==
    CASE s = "T" -> "t"
      [] s = "TRUE" -> "true"
      [] s = "True" -> "true"
      [] s = "F" -> "f"
      [] s = "FALSE" -> "false"
      [] s = "False" -> "false"
      [] OTHER -> s

\* Python truth value of an optional string / optional integer
TruthyStr(o) == o # None /\ o[1] # ""
TruthyInt(o) == o # None /\ o[1] # 0

\* every way of giving at most k of the options fs (a sequence of names) a
\* value of dom[option], an option not given being None
RECURSIVE Supplied(_, _, _)
Supplied(fs, dom, k) ==
    IF fs = <<>> THEN {<<>>}
    ELSE {(fs[1] :> None) @@ g : g \in Supplied(Tail(fs), dom, k)}
         \cup (IF k = 0 THEN {}
               ELSE UNION {{(fs[1] :> Some(v)) @@ g : g \in Supplied(Tail(fs), dom, k - 1)}
                           : v \in dom[fs[1]]})

\* every mapping holding at most k of the keys fs, a key's value being one of
\* dom[key] (None is YAML's null)
RECURSIVE Present(_, _, _)
Present(fs, dom, k) ==
    IF fs = <<>> THEN {<<>>}
    ELSE Present(Tail(fs), dom, k)
         \cup (IF k = 0 THEN {}
               ELSE UNION {{(fs[1] :> v) @@ g : g \in Present(Tail(fs), dom, k - 1)}
                           : v \in dom[fs[1]]})

CliOptions ==
    <<"host", "port", "username", "password", "url_prefix", "no_auth", "ssl",
      "verify_certs", "aws_region", "send_get_body_as", "config">>

CliValues(f) ==
    CASE f = "host" -> {"", "h"}
      [] f = "port" -> {<<0>>, <<9, 2>>}
      [] f = "username" -> {"u"}
      [] f = "password" -> {"p"}
      [] f = "url_prefix" -> {"", "pre"}
      [] f = "no_auth" -> {TRUE}
      [] f = "ssl" -> {TRUE, FALSE}
      [] f = "verify_certs" -> {TRUE, FALSE}
      [] f = "aws_region" -> {"r"}
      [] f = "send_get_body_as" -> {"POST"}
      [] f = "config" -> {"my.yaml"}

CliDomain == [f \in {CliOptions[k] : k \in 1..Len(CliOptions)} |-> CliValues(f)]

EnvNames == <<"ES_HOST", "ES_PORT", "ES_USERNAME", "ES_PASSWORD", "ES_USE_SSL">>

EnvValues(f) ==
    CASE f = "ES_HOST" -> {"eh"}
      [] f = "ES_PORT" -> {<<9, 3>>}
      [] f = "ES_USERNAME" -> {"eu"}
      [] f = "ES_PASSWORD" -> {"ep"}
      [] f = "ES_USE_SSL" -> {TRUE, FALSE}

FileKeys ==
    <<"es_host", "es_port", "es_username", "es_password", "es_url_prefix",
      "use_ssl", "verify_certs", "aws_region", "send_get_body_as", "ca_certs",
      "client_cert", "client_key">>

FileValues(f) ==
    CASE f = "es_host" -> {Some("fh")}
      [] f = "es_port" -> {Some(94)}
      [] f = "es_username" -> {Some("fu")}
      [] f = "es_password" -> {Some("fp")}
      [] f = "es_url_prefix" -> {Some("fpre")}
      [] f = "use_ssl" -> {Some(TRUE), Some(FALSE), None}
      [] f = "verify_certs" -> {Some(TRUE), Some(FALSE), None}
      [] f = "aws_region" -> {Some("fr")}
      [] f = "send_get_body_as" -> {Some("source")}
      [] f = "ca_certs" -> {Some("ca.pem")}
      [] f = "client_cert" -> {Some("cert.pem")}
      [] f = "client_key" -> {Some("key.pem")}

FileDomain == [f \in {FileKeys[k] : k \in 1..Len(FileKeys)} |-> FileValues(f)]

\* the environment: no ES_* variable set, or one of them
EnvUnset == [n \in {EnvNames[k] : k \in 1..Len(EnvNames)} |-> None]
Environments ==
    {EnvUnset}
    \cup UNION {{[EnvUnset EXCEPT ![EnvNames[k]] = Some(v)] : v \in EnvValues(EnvNames[k])}
                : k \in 1..Len(EnvNames)}

\* the files on disk: none, ./config.yaml, or only the file --config may name
FoundFileSystems == {("config.yaml" :> d) : d \in Present(FileKeys, FileDomain, MaxKeys)}
OtherFileSystems == {<<>>, ("my.yaml" :> <<>>), ("my.yaml" :> ("es_host" :> Some("fh")))}

\* what the operator types at the prompts of lines 80-93
Answers ==
    {[host |-> "ph", port |-> <<9, 5>>, ssl |-> "T", verify |-> "f",
      username |-> "pu", password |-> "pp", url_prefix |-> "ppre"],
     [host |-> "ph", port |-> <<9, 5>>, ssl |-> "f", verify |-> "False",
      username |-> "", password |-> "", url_prefix |-> ""],
     [host |-> "ph", port |-> <<>>, ssl |-> "true", verify |-> "yes",
      username |-> "pu", password |-> "", url_prefix |-> ""]}

\* the operator is asked nothing when ./config.yaml is there
NoAnswers ==
    [host |-> "", port |-> <<>>, ssl |-> "", verify |-> "", username |-> "",
     password |-> "", url_prefix |-> ""]

ConfigInput(c, e, f, a) == [cli |-> c, env |-> e, fs |-> f, ans |-> a]

\* ---- lines 23-52: argparse ----
\* (--timeout, --profile and --boto-profile are handed to the client and to
\* Auth unchanged, lines 99-105, and take no part in the resolution below)
\* a default taken from the environment is a string and goes through type=int
ParseArgs(c) ==
    [host |-> IF c.cli.host # None THEN c.cli.host ELSE c.env.ES_HOST,
     port |-> IF c.cli.port # None THEN Some(ToInt(c.cli.port[1]))
              ELSE IF c.env.ES_PORT # None THEN Some(ToInt(c.env.ES_PORT[1]))
              ELSE None,
     username |-> IF c.cli.username # None THEN c.cli.username ELSE c.env.ES_USERNAME,
     password |-> IF c.cli.password # None THEN c.cli.password ELSE c.env.ES_PASSWORD,
     url_prefix |-> c.cli.url_prefix,
     no_auth |-> c.cli.no_auth,
     ssl |-> IF c.cli.ssl # None THEN c.cli.ssl ELSE c.env.ES_USE_SSL,
     verify_certs |-> c.cli.verify_certs,
     aws_region |-> c.cli.aws_region,
     send_get_body_as |-> IF c.cli.send_get_body_as # None
                          THEN c.cli.send_get_body_as ELSE Some("GET"),
     config |-> IF c.cli.config # None THEN c.cli.config[1] ELSE "config.yaml"]

\* ---- lines 54-59: which file is read ----
Filename(c) ==
    IF "config.yaml" \in DOMAIN c.fs THEN "config.yaml"
    ELSE IF ParseArgs(c).config \in DOMAIN c.fs THEN ParseArgs(c).config
    ELSE ""

\* dict.get(key) and dict.get(key, default)
Get(data, key) == IF key \in DOMAIN data THEN data[key] ELSE None
GetDefault(data, key, default) == IF key \in DOMAIN data THEN data[key] ELSE default

\* FileVerifyCerts taking the file's value by its truth value, so that an
\* absent key counts as false
FileVerifyCerts_Truthy(a, data) ==
    IF a.verify_certs # None THEN a.verify_certs
    ELSE Some(Get(data, "verify_certs") = Some(TRUE))

\* line 70: args.verify_certs if args.verify_certs is not None
\*          else data.get('verify_certs') is not False
FileVerifyCerts(a, data) ==
    IF a.verify_certs # None THEN a.verify_certs
    ELSE Some(Get(data, "verify_certs") # Some(FALSE))

\* line 69: args.ssl if args.ssl is not None else data.get('use_ssl')
FileUseSsl(a, data) == IF a.ssl # None THEN a.ssl ELSE Get(data, "use_ssl")

\* ---- lines 61-75: a file was found ----
FileMode(c) ==
    LET a == ParseArgs(c)
        data == c.fs[Filename(c)]
    IN  [status |-> "ok",
         mode |-> "file",
         filename |-> Filename(c),
         host |-> IF TruthyStr(a.host) THEN a.host ELSE Get(data, "es_host"),
         port |-> IF TruthyInt(a.port) THEN a.port ELSE Get(data, "es_port"),
         username |-> IF TruthyStr(a.username) THEN a.username ELSE Get(data, "es_username"),
         password |-> IF TruthyStr(a.password) THEN a.password ELSE Get(data, "es_password"),
         url_prefix |-> IF a.url_prefix # None THEN a.url_prefix
                        ELSE GetDefault(data, "es_url_prefix", Some("")),
         use_ssl |-> FileUseSsl(a, data),
         verify_certs |-> FileVerifyCerts(a, data),
         aws_region |-> GetDefault(data, "aws_region", None),
         send_get_body_as |-> GetDefault(data, "send_get_body_as", Some("GET")),
         ca_certs |-> Get(data, "ca_certs"),
         client_cert |-> Get(data, "client_cert"),
         client_key |-> Get(data, "client_key"),
         prompted |-> <<>>]

\* ---- lines 76-97: no file was found ----
NoFileMode(c) ==
    LET a == ParseArgs(c)
        askHost == ~TruthyStr(a.host)
        askPort == ~TruthyInt(a.port)
        askSsl == a.ssl = None
        use_ssl == IF askSsl THEN Lower(c.ans.ssl) \in {"t", "true"} ELSE a.ssl[1]
        askVerify == use_ssl /\ a.verify_certs = None
        username0 == IF TruthyStr(a.username) THEN a.username ELSE None
        password0 == IF TruthyStr(a.password) THEN a.password ELSE None
        askAuth == a.no_auth = None /\ username0 = None
        askPrefix == a.url_prefix = None
        asked(b, name) == IF b THEN <<name>> ELSE <<>>
    IN  IF askPort /\ ~IsInt(c.ans.port)
        THEN \* int(raw_input(...)) raises ValueError
             [status |-> "error", mode |-> "nofile", filename |-> "",
              host |-> None, port |-> None, username |-> None, password |-> None,
              url_prefix |-> None, use_ssl |-> None, verify_certs |-> None,
              aws_region |-> None, send_get_body_as |-> None, ca_certs |-> None,
              client_cert |-> None, client_key |-> None,
              prompted |-> asked(askHost, "host") \o <<"port">>]
        ELSE [status |-> "ok",
              mode |-> "nofile",
              filename |-> "",
              host |-> IF askHost THEN Some(c.ans.host) ELSE a.host,
              port |-> IF askPort THEN Some(ToInt(c.ans.port)) ELSE a.port,
              username |-> IF askAuth THEN Some(c.ans.username) ELSE username0,
              password |-> IF askAuth THEN Some(c.ans.password) ELSE password0,
              url_prefix |-> IF askPrefix THEN Some(c.ans.url_prefix) ELSE a.url_prefix,
              use_ssl |-> Some(use_ssl),
              verify_certs |-> IF use_ssl
                               THEN IF a.verify_certs # None THEN a.verify_certs
                                    ELSE Some(Lower(c.ans.verify) \notin {"f", "false"})
                               ELSE Some(TRUE),
              aws_region |-> a.aws_region,
              send_get_body_as |-> a.send_get_body_as,
              ca_certs |-> None,
              client_cert |-> None,
              client_key |-> None,
              prompted |-> asked(askHost, "host") \o asked(askPort, "port")
                           \o asked(askSsl, "ssl") \o asked(askVerify, "verify")
                           \o asked(askAuth, "username") \o asked(askAuth, "password")
                           \o asked(askPrefix, "url_prefix")]

\* lines 52-97 as a function of the inputs
Resolve(c) == IF Filename(c) # "" THEN FileMode(c) ELSE NoFileMode(c)

\* main() parses the arguments and resolves the configuration
ResolveConfig ==
    /\ cin # None
    /\ cfg = None
    /\ cfg' = Some(Resolve(cin[1]))
    /\ UNCHANGED <<cin, pvars>>

NoArgs == [index |-> None, old_index |-> None, ans_index |-> None, ans_old_index |-> None]

CfgIdle == /\ cin = None
           /\ cfg = None

Init ==
    /\ exists \in InitClusters
    /\ mapped = exists
    /\ exists0 = exists
    /\ runs = 0
    /\ targets = {}
    /\ prev = None
    /\ pc = "idle"
    /\ i = 1
    /\ args = NoArgs
    /\ index = ""
    /\ old_index = ""
    /\ start = exists
    /\ calls = <<>>
    /\ output = <<>>
    /\ CfgIdle

Next ==
    \/ \E ai \in ArgIndexValues, ni \in AnsIndexValues,
          ao \in ArgOldIndexValues, no \in AnsOldIndexValues : StartRun(ai, ni, ao, no)
    \/ ExistsCheck
    \/ Create
    \/ Sleep
    \/ PutMapping
    \/ PrintCreated
    \/ Reindex
    \/ Done

Spec == Init /\ [][Next]_vars

\* the configuration part alone: the inputs are drawn, the cluster is not used
InitCfg ==
    /\ exists = {}
    /\ mapped = {}
    /\ exists0 = {}
    /\ runs = 0
    /\ targets = {}
    /\ prev = None
    /\ pc = "idle"
    /\ i = 1
    /\ args = NoArgs
    /\ index = ""
    /\ old_index = ""
    /\ start = {}
    /\ calls = <<>>
    /\ output = <<>>
    /\ \E c \in Supplied(CliOptions, CliDomain, MaxArgs), e \in Environments :
          \/ \E f \in FoundFileSystems : cin = Some(ConfigInput(c, e, f, NoAnswers))
          \/ \E f \in OtherFileSystems, a \in Answers : cin = Some(ConfigInput(c, e, f, a))
    /\ cfg = None

NextCfg == ResolveConfig

SpecCfg == InitCfg /\ [][NextCfg]_vars

\* ======================================================================
\* Properties
\* ======================================================================

Positions == 1..Len(calls)
Mutating == {"create", "put_mapping", "reindex"}
SkipNotice == <<"Index already exists. Skipping index creation.", index>>
CreatedNotice == <<"New index created", index>>
Printed(line) == \E p \in 1..Len(output) : output[p] = line
Issued(op, idx) == \E p \in Positions : calls[p].op = op /\ calls[p].index = idx
Succeeded(op, idx) ==
    \E p \in Positions : calls[p].op = op /\ calls[p].index = idx /\ calls[p].res = "ok"
ExistsReturned(res) == Len(calls) >= 1 /\ calls[1].op = "exists" /\ calls[1].res = res

\* C1: a run whose existence check on the target returns true issues no
\* create, put_mapping or reindex call, prints the skip notice and returns,
\* also when an old index was given
C1_SkipIsPure ==
    ExistsReturned("true") =>
        /\ pc = "skipped"
        /\ Len(calls) = 1
        /\ calls[1].index = index
        /\ output = <<SkipNotice>>
        /\ exists = start

C1_Witness ==
    /\ pc = "skipped"
    /\ ExistsReturned("true")
    /\ old_index = "bar"
    /\ args.old_index = Some("bar")

\* C2: once the existence check has returned false, a run that has ended has
\* issued all five create calls and all five put_mapping calls, whichever of
\* them failed
C2_CallsIndependent ==
    (pc \in Ended /\ ExistsReturned("false")) =>
        \A k \in 1..Len(CreateOrder) :
            /\ Issued("create", CreateOrder[k])
            /\ Issued("put_mapping", MappingOrder[k])

\* C3: when a first run with no old index found its target missing and all
\* its calls succeeded, the existence check of a second run with the same
\* target returns true and the second run leaves the cluster as the first did
C3_SecondRunSkips ==
    (/\ prev # None
     /\ prev[1].pc = "done"
     /\ prev[1].old_index = ""
     /\ prev[1].index \notin prev[1].start
     /\ prev[1].index = index
     /\ old_index = ""
     /\ Len(calls) >= 1
     /\ calls[1].res # "raise") =>
        /\ ExistsReturned("true")
        /\ exists = prev[1].exists
        /\ mapped = prev[1].mapped

\* C5: reindex is called at most once, only with a non-empty old index and
\* only after the existence check, the five creations and the five mapping
\* applications succeeded, with source old_index and destination index; a
\* run that got that far with a non-empty old index has called it
ReindexCalls == {p \in Positions : calls[p].op = "reindex"}
PassedMappings ==
    /\ ExistsReturned("false")
    /\ \A k \in 1..Len(CreateOrder) :
        /\ Succeeded("create", CreateOrder[k])
        /\ Succeeded("put_mapping", MappingOrder[k])

C5_ReindexIffOldIndex ==
    /\ Cardinality(ReindexCalls) <= 1
    /\ \A p \in ReindexCalls :
        /\ old_index # ""
        /\ calls[p].src = old_index
        /\ calls[p].index = index
        /\ PassedMappings
    /\ old_index = "" => ReindexCalls = {}
    /\ (pc \in {"finish", "done"} /\ old_index # "") => ReindexCalls # {}
    /\ pc \in {"finish", "done"} => PassedMappings

C5_Witness ==
    /\ pc = "done"
    /\ ReindexCalls # {}
    /\ args.old_index = None
    /\ args.ans_old_index = Some("bar")

C9_CreatedMeansCreated ==
    Printed(CreatedNotice) =>
        /\ index \in exists
        /\ Succeeded("create", index)
        /\ Succeeded("put_mapping", index)

\* C10: on a cluster that was empty before the first run and on which every
\* run used the default target, a run that ended with the skip notice or with
\* 'Done!' leaves all five indices existing and mapped
C10_RerunSafe ==
    (/\ exists0 = {}
     /\ targets = {DefaultIndex}
     /\ pc \in {"skipped", "done"}) =>
        /\ FixedIndices \subseteq exists
        /\ FixedIndices \subseteq mapped

\* ---- configuration ----
Resolved == cfg # None /\ cfg[1].status = "ok"
InFileMode == Resolved /\ cfg[1].mode = "file"
InNoFileMode == Resolved /\ cfg[1].mode = "nofile"
Cli == cin[1].cli
FileData == cin[1].fs[cfg[1].filename]

\* the CLI value when given, else the file's value, else the default
CliFileDefault(cliv, key, default) ==
    IF cliv # None THEN cliv
    ELSE IF key \in DOMAIN FileData THEN FileData[key]
    ELSE default

\* C4: in file mode every resolved field is the CLI value when one was given
\* (falsy ones included), else the file's value, else the default
C4_CliThenFileThenDefault ==
    InFileMode =>
        /\ cfg[1].host = CliFileDefault(Cli.host, "es_host", None)
        /\ cfg[1].port = CliFileDefault(IF Cli.port # None THEN Some(ToInt(Cli.port[1])) ELSE None,
                                        "es_port", None)
        /\ cfg[1].username = CliFileDefault(Cli.username, "es_username", None)
        /\ cfg[1].password = CliFileDefault(Cli.password, "es_password", None)
        /\ cfg[1].url_prefix = CliFileDefault(Cli.url_prefix, "es_url_prefix", Some(""))
        /\ cfg[1].use_ssl = CliFileDefault(Cli.ssl, "use_ssl", None)
        /\ cfg[1].verify_certs =
             (IF Cli.verify_certs # None THEN Cli.verify_certs
              ELSE Some(~("verify_certs" \in DOMAIN FileData
                          /\ FileData["verify_certs"] = Some(FALSE))))
        /\ cfg[1].aws_region = CliFileDefault(Cli.aws_region, "aws_region", None)
        /\ cfg[1].send_get_body_as =
             CliFileDefault(Cli.send_get_body_as, "send_get_body_as", Some("GET"))

\* C7: in file mode without --verify-certs / --no-verify-certs, verify_certs
\* is false exactly when the file sets verify_certs to false and true
\* otherwise; with use_ssl: true in the file, no SSL flag and no ES_USE_SSL,
\* use_ssl is true
C7_VerifyCertsAbsenceNotFalse ==
    (InFileMode /\ Cli.verify_certs = None) =>
        /\ cfg[1].verify_certs \in {Some(TRUE), Some(FALSE)}
        /\ (cfg[1].verify_certs = Some(FALSE)) <=>
             ("verify_certs" \in DOMAIN FileData /\ FileData["verify_certs"] = Some(FALSE))
        /\ (/\ "use_ssl" \in DOMAIN FileData
            /\ FileData["use_ssl"] = Some(TRUE)
            /\ Cli.ssl = None
            /\ cin[1].env.ES_USE_SSL = None) => cfg[1].use_ssl = Some(TRUE)

C7_Witness ==
    /\ InFileMode
    /\ Cli.verify_certs = None
    /\ Cli.ssl = None
    /\ cin[1].env.ES_USE_SSL = None
    /\ DOMAIN FileData = {"use_ssl"}
    /\ FileData["use_ssl"] = Some(TRUE)
    /\ cfg[1].use_ssl = Some(TRUE)
    /\ cfg[1].verify_certs = Some(TRUE)

\* whether the operator was asked for the field
PromptedFor(name) == \E p \in 1..Len(cfg[1].prompted) : cfg[1].prompted[p] = name

\* C8: without a file every resolved field is the CLI value when one was
\* given, no prompt is issued for a field given on the command line,
\* --no-verify-certs gives verify_certs = false whatever use_ssl is, and
\* the credentials are asked for only without --no-auth and without a username
C8_NoCliValueDropped ==
    InNoFileMode =>
        /\ Cli.host # None => (cfg[1].host = Cli.host /\ ~PromptedFor("host"))
        /\ Cli.port # None => (cfg[1].port = Some(ToInt(Cli.port[1])) /\ ~PromptedFor("port"))
        /\ Cli.username # None => (cfg[1].username = Cli.username /\ ~PromptedFor("username"))
        /\ Cli.password # None => (cfg[1].password = Cli.password /\ ~PromptedFor("password"))
        /\ Cli.url_prefix # None =>
             (cfg[1].url_prefix = Cli.url_prefix /\ ~PromptedFor("url_prefix"))
        /\ Cli.ssl # None => (cfg[1].use_ssl = Cli.ssl /\ ~PromptedFor("ssl"))
        /\ Cli.verify_certs # None =>
             (cfg[1].verify_certs = Cli.verify_certs /\ ~PromptedFor("verify"))
        /\ Cli.aws_region # None => cfg[1].aws_region = Cli.aws_region
        /\ Cli.send_get_body_as # None => cfg[1].send_get_body_as = Cli.send_get_body_as
        /\ PromptedFor("username") => (Cli.no_auth = None /\ Cli.username = None)

====
